---- MODULE Spec2Model ----
(***************************************************************************)
(* BitShield procurement-risk agent: the LangGraph workflow of             *)
(* src/agents/workflow.py driving the six node functions of                *)
(* src/agents/nodes.py over one TenderAnalysisState, together with the     *)
(* analyzers the nodes call (src/utils).                                    *)
(*                                                                         *)
(* Numbers.  Bid amounts are whole currency units.  Scores, similarities   *)
(* and weights are exact rationals written as integers in units of         *)
(* 1/ScoreUnit (0.3 is Tenths(3)).  Python dicts are sequences  *)
(* of <<key, value>> pairs in insertion order.                             *)
(***************************************************************************)
EXTENDS Integers, Sequences, FiniteSets, TLC

(***************************************************************************)
(* Bounds of the model.                                                    *)
(***************************************************************************)
MaxBidders == 3

ScoreUnit == 60 * 100

\* k/10 and k/100 in score units
Tenths(k) == (k * ScoreUnit) \div 10

Percent(k) == (k * ScoreUnit) \div 100

(***************************************************************************)
(* Generic helpers: Python dict and list operations.                       *)
(***************************************************************************)
Range(s) == {s[i] : i \in DOMAIN s}

RECURSIVE SeqSum(_)
SeqSum(s) == IF s = <<>> THEN 0 ELSE Head(s) + SeqSum(Tail(s))

RECURSIVE Concat(_)
Concat(ss) == IF ss = <<>> THEN <<>> ELSE Head(ss) \o Concat(Tail(ss))

DictKeys(d) == [i \in DOMAIN d |-> d[i][1]]

DictValues(d) == [i \in DOMAIN d |-> d[i][2]]

DictHas(d, k) == \E i \in DOMAIN d : d[i][1] = k

DictGet(d, k) == d[CHOOSE i \in DOMAIN d : d[i][1] = k][2]

\* d[k] = v: an existing key keeps its position, a new key goes last
DictPut(d, k, v) ==
    IF DictHas(d, k)
    THEN [i \in DOMAIN d |-> IF d[i][1] = k THEN <<k, v>> ELSE d[i]]
    ELSE Append(d, <<k, v>>)

SeqMax(s) == CHOOSE m \in Range(s) : \A x \in Range(s) : x <= m

(***************************************************************************)
(* Optional[...] fields.  The result slots hold records, error holds a     *)
(* string, so each has its own representation of Python's None.            *)
(***************************************************************************)
None == [none |-> TRUE]

NoError == "None"

(***************************************************************************)
(* The request: BidderInfo records and the uploaded document paths.        *)
(***************************************************************************)
BidderName == <<"B1", "B2", "B3", "B4", "B5">>

Amounts == {-500, 0, 800, 1000}

PositionAmount == <<800, 1000, 1010, 1300, 1500>>

Docs == {"a.pdf", "b.pdf", "c.txt"}

DocLists == {<<>>, <<"a.pdf">>, <<"b.pdf">>, <<"c.txt">>}

ContactInfo(e, p, a) == [email |-> e, phone |-> p, address |-> a]

ContactChoices ==
    {None, ContactInfo("x@x.com", "", ""), ContactInfo("y@y.com", "555", "1 Main St"),
     ContactInfo("x@x.com", "555", "")}

BidderInfo(id, amount, docs, contact) ==
    [bidder_id |-> id, bid_amount |-> amount, documents |-> docs,
     contact_info |-> contact]

\* requests that vary the bid amounts and allow a repeated bidder_id
PriceRequests ==
    UNION {[1..n -> {BidderInfo(id, amt, <<>>, None) :
                        id \in {"B1", "B2", "B3"}, amt \in Amounts}]
           : n \in 0..MaxBidders}

\* requests that vary the documents each bidder submits
DocRequests ==
    UNION {{[i \in 1..n |-> BidderInfo(BidderName[i], PositionAmount[i], dl[i], None)]
            : dl \in [1..n -> DocLists]} : n \in 1..MaxBidders}

\* requests that vary the declared contact information
ContactRequests ==
    UNION {{[i \in 1..n |-> BidderInfo(BidderName[i], PositionAmount[i], <<>>, ci[i])]
            : ci \in [1..n -> ContactChoices]} : n \in 2..MaxBidders}

\* bid amounts that reach every combination of the three price indicators
PriceGrid == {800, 1000, 1010, 1200, 2500, 3000}

\* requests of three or more bidders with distinct ids and positive bids
BidMapRequests ==
    UNION {{[i \in 1..n |-> BidderInfo(BidderName[i], amt[i], <<>>, None)]
            : amt \in [1..n -> PriceGrid]} : n \in 3..MaxBidders}

\* the bid amount the upload form proposes
DefaultBid == 100000

\* three bidders with the same bid, no documents, no contact information
IdenticalBids ==
    <<BidderInfo("B1", DefaultBid, <<>>, None), BidderInfo("B2", DefaultBid, <<>>, None),
      BidderInfo("B3", DefaultBid, <<>>, None)>>

\* a low bid and two high bids one percent apart
CoverBids ==
    <<BidderInfo("B1", 80000, <<>>, None), BidderInfo("B2", DefaultBid, <<>>, None),
      BidderInfo("B3", 101000, <<>>, None)>>

\* four bidders with one document each
GroupAmounts == <<2500, 3000, 3000, 3000>>

GroupRequests ==
    {[i \in DOMAIN GroupAmounts |->
         BidderInfo(BidderName[i], GroupAmounts[i], <<d[i]>>, None)]
     : d \in [DOMAIN GroupAmounts -> {"a.pdf", "b.pdf"}]}

\* a bidder with two documents next to a second bidder
MultiDocRequests ==
    {<<BidderInfo("B1", 800, <<"a.pdf", "b.pdf">>, None), BidderInfo("B2", 1000, dl, None)>>
     : dl \in DocLists \cup {<<"a.pdf", "b.pdf">>}}

\* three bidders supplied in descending order of their ids
ReversedRequests ==
    {<<BidderInfo("B3", 800, <<d[1]>>, None), BidderInfo("B2", 1000, <<d[2]>>, None),
       BidderInfo("B1", 1010, <<d[3]>>, None)>>
     : d \in [1..3 -> {"a.pdf", "b.pdf"}]}

\* a bidder_id that contains the separator of the pseudo-ids
ColonId == "A:B"

ColonRequests ==
    {<<BidderInfo(ColonId, 800, <<"a.pdf">>, None), BidderInfo("C", 1000, dl, None)>>
     : dl \in DocLists}

Requests ==
    PriceRequests \cup DocRequests \cup ContactRequests \cup BidMapRequests
    \cup {IdenticalBids, CoverBids} \cup GroupRequests \cup MultiDocRequests
    \cup ReversedRequests \cup ColonRequests

\* the caller passes every bidder's documents as uploaded_documents
AllDocuments(bs) == Concat([i \in DOMAIN bs |-> bs[i].documents])

(***************************************************************************)
(* Document extraction (utils/document_processor.py).  Only .pdf paths are *)
(* read; every other suffix yields the empty text.                         *)
(***************************************************************************)
IsPdf(path) == path \in {"a.pdf", "b.pdf"}

PdfText(path) == IF path = "a.pdf" THEN "text a" ELSE "text b"

RECURSIVE process_tender_documents(_)
process_tender_documents(paths) ==
    IF paths = <<>> THEN <<>>
    ELSE LET rest == process_tender_documents(SubSeq(paths, 1, Len(paths) - 1))
             p == paths[Len(paths)]
         IN  DictPut(rest, p, IF IsPdf(p) THEN PdfText(p) ELSE "")

(***************************************************************************)
(* PriceAnalyzer (utils/price_analyzer.py).                                *)
(***************************************************************************)
\* {bidder.bidder_id: bidder.bid_amount for bidder in bidders}
RECURSIVE BidderPrices(_)
BidderPrices(bs) ==
    IF bs = <<>> THEN <<>>
    ELSE LET b == bs[Len(bs)]
         IN  DictPut(BidderPrices(SubSeq(bs, 1, Len(bs) - 1)), b.bidder_id, b.bid_amount)

RECURSIVE Gcd(_, _)
Gcd(a, b) == IF b = 0 THEN a ELSE Gcd(b, a % b)

RECURSIVE SeqGcd(_)
SeqGcd(s) ==
    IF s = <<>> THEN 0
    ELSE Gcd(SeqGcd(Tail(s)), IF Head(s) < 0 THEN -Head(s) ELSE Head(s))

\* coefficient_variation squared, as an exact fraction: the population
\* variance over the squared mean when the mean is positive, else 0.  std /
\* mean does not change when every price is divided by the same number, so
\* the fraction is computed over the prices divided by their common divisor
detect_outliers(prices) ==
    IF Len(prices) < 3
    THEN [error |-> "Need at least 3 bids for statistical analysis"]
    ELSE LET n == Len(prices)
             g == SeqGcd(prices)
             unit == [i \in DOMAIN prices |-> IF g = 0 THEN 0 ELSE prices[i] \div g]
             S == SeqSum(unit)
             Q == SeqSum([i \in DOMAIN unit |-> unit[i] * unit[i]])
         IN  [coefficient_variation_sq |->
                 IF S > 0 THEN [num |-> n * Q - S * S, den |-> S * S]
                 ELSE [num |-> 0, den |-> 1]]

\* outlier_results.get("coefficient_variation", 0) < 0.1
LowVariation(outlier_results) ==
    IF "coefficient_variation_sq" \in DOMAIN outlier_results
    THEN outlier_results.coefficient_variation_sq.num * 100
            < outlier_results.coefficient_variation_sq.den
    ELSE TRUE

\* np.argsort(prices): the indices in ascending price order, ties in input order
RECURSIVE ArgSort(_, _)
ArgSort(prices, todo) ==
    IF todo = {} THEN <<>>
    ELSE LET i == CHOOSE i \in todo :
                    \A j \in todo : prices[i] < prices[j]
                                    \/ (prices[i] = prices[j] /\ i <= j)
         IN  <<i>> \o ArgSort(prices, todo \ {i})

\* the division by lowest_bid at the first loop iteration
CoverBiddingRaises(bidder_prices) ==
    LET prices == DictValues(bidder_prices)
    IN  Len(prices) >= 2 /\ \E i \in DOMAIN prices :
            prices[i] = 0 /\ \A j \in DOMAIN prices : prices[j] >= 0

\* the 15% gate left out
PriceGap_ungated(price, lowest_bid) == TRUE

\* price_gap = (price - lowest_bid) / lowest_bid; price_gap > 0.15
PriceGap(price, lowest_bid) ==
    lowest_bid > 0 /\ (price - lowest_bid) * 100 > 15 * lowest_bid

\* relative_diff = abs(price_j - price_i) / price_i; relative_diff < margin_threshold
WithinMargin(price_i, price_j) ==
    LET diff == IF price_j >= price_i THEN price_j - price_i ELSE price_i - price_j
    IN  price_i > 0 => diff * 100 < 5 * price_i

detect_cover_bidding(bidder_prices) ==
    LET prices == DictValues(bidder_prices)
        bidder_ids == DictKeys(bidder_prices)
        sorted_indices == ArgSort(prices, DOMAIN prices)
        sorted_prices == [k \in DOMAIN prices |-> prices[sorted_indices[k]]]
        sorted_bidders == [k \in DOMAIN prices |-> bidder_ids[sorted_indices[k]]]
        lowest_bid == sorted_prices[1]
        \* for i in range(1, len(sorted_prices)): for j in range(i + 1, ...)
        pairs == {<<i, j>> \in (DOMAIN prices) \X (DOMAIN prices) :
                     /\ i >= 2 /\ j > i
                     /\ PriceGap(sorted_prices[i], lowest_bid)
                     /\ WithinMargin(sorted_prices[i], sorted_prices[j])}
    IN  IF Len(prices) < 2 THEN [suspicious_patterns |-> {}]
        ELSE [lowest_bid |-> lowest_bid,
              highest_bid |-> sorted_prices[Len(prices)],
              suspicious_patterns |->
                  {[bidder1 |-> sorted_bidders[p[1]], bidder2 |-> sorted_bidders[p[2]],
                    price1 |-> sorted_prices[p[1]], price2 |-> sorted_prices[p[2]],
                    pattern |-> "clustered_high_bids"] : p \in pairs}]

\* "high" from 0.7 on
PriceSeverity_ge(risk_score) ==
    IF risk_score >= Tenths(7) THEN "high"
    ELSE IF risk_score > Tenths(4) THEN "medium" ELSE "low"

\* the price_anomaly thresholds of config.RISK_THRESHOLDS
PriceSeverity_config(risk_score) ==
    IF risk_score > Tenths(8) THEN "high"
    ELSE IF risk_score > Tenths(5) THEN "medium" ELSE "low"

PriceSeverity(risk_score) ==
    IF risk_score > Tenths(7) THEN "high"
    ELSE IF risk_score > Tenths(4) THEN "medium" ELSE "low"

\* only the multiples of 1000 counted
RoundNumber_thousand(p) == p % 1000 = 0

\* p % 1000 == 0 or p % 500 == 0
RoundNumber(p) == p % 1000 = 0 \/ p % 500 = 0

analyze_price_patterns(bidder_prices) ==
    LET prices == DictValues(bidder_prices)
        outlier_results == detect_outliers(prices)
        cover_bid_results == detect_cover_bidding(bidder_prices)
        round_numbers == Cardinality({i \in DOMAIN prices : RoundNumber(prices[i])})
        \* round_number_ratio > 0.5, with ratio 0 for no prices
        round_ratio_high == Len(prices) > 0 /\ 2 * round_numbers > Len(prices)
        low_variation == LowVariation(outlier_results)
        clustered == cover_bid_results.suspicious_patterns # {}
        raw == (IF low_variation THEN Tenths(3) ELSE 0)
               + (IF clustered THEN Tenths(4) ELSE 0)
               + (IF round_ratio_high THEN Tenths(2) ELSE 0)
        risk_score == IF raw < ScoreUnit THEN raw ELSE ScoreUnit
    IN  [outlier_analysis |-> outlier_results,
         cover_bidding_analysis |-> cover_bid_results,
         round_numbers |-> round_numbers,
         risk_score |-> risk_score,
         risk_indicators |->
             (IF low_variation THEN <<"Low price variation (potential coordination)">> ELSE <<>>)
             \o (IF clustered THEN <<"Clustered high bids detected">> ELSE <<>>)
             \o (IF round_ratio_high THEN <<"High proportion of round number bids">> ELSE <<>>),
         severity |-> PriceSeverity(risk_score)]

(***************************************************************************)
(* RiskSignal (state/agent_state.py).                                      *)
(***************************************************************************)
RiskSignal(type, sev, sc, affected) ==
    [signal_type |-> type, severity |-> sev, score |-> sc, affected_bidders |-> affected]

(***************************************************************************)
(* bidder_texts built by the similarity and stylometry nodes:              *)
(* {bidder_id: {doc_path: text}} over the paths present in extracted_text. *)
(***************************************************************************)
RECURSIVE DocTexts(_, _)
DocTexts(documents, texts) ==
    IF documents = <<>> THEN <<>>
    ELSE LET rest == DocTexts(SubSeq(documents, 1, Len(documents) - 1), texts)
             d == documents[Len(documents)]
         IN  IF DictHas(texts, d) THEN DictPut(rest, d, DictGet(texts, d)) ELSE rest

RECURSIVE BidderTexts(_, _)
BidderTexts(bs, texts) ==
    IF bs = <<>> THEN <<>>
    ELSE LET b == bs[Len(bs)]
         IN  DictPut(BidderTexts(SubSeq(bs, 1, Len(bs) - 1), texts),
                     b.bidder_id, DocTexts(b.documents, texts))

(***************************************************************************)
(* SemanticAnalyzer (utils/semantic_analyzer.py).                          *)
(*                                                                         *)
(* An identifier is the sequence of its ':'-separated segments, so that    *)
(* f"{bidder_id}:{doc_id}" is the concatenation of the two segment         *)
(* sequences and split(":")[0] is the first segment.                       *)
(***************************************************************************)
Segments(id) == IF id = ColonId THEN <<"A", "B">> ELSE <<id>>

PseudoId(bidder_id, doc_id) == Segments(bidder_id) \o Segments(doc_id)

SplitFirst(pseudo_id) == Head(pseudo_id)

\* cosine similarities the embedding model can return, in percent
SimValues == {60, 80, 88, 95}

RECURSIVE FlattenDocs(_, _, _)
FlattenDocs(acc, bidder_id, docs) ==
    IF docs = <<>> THEN acc
    ELSE FlattenDocs(DictPut(acc, PseudoId(bidder_id, Head(docs)[1]), Head(docs)[2]),
                     bidder_id, Tail(docs))

RECURSIVE AllDocs(_, _)
AllDocs(acc, bidder_texts) ==
    IF bidder_texts = <<>> THEN acc
    ELSE AllDocs(FlattenDocs(acc, Head(bidder_texts)[1], Head(bidder_texts)[2]),
                 Tail(bidder_texts))

\* the outputs of model.encode + cos_sim: one similarity per unordered pair
\* of distinct texts; equal texts have equal embeddings, similarity 1
TextPairs(texts) == {{t, u} : t \in texts, u \in texts} \ {{t} : t \in texts}

EmbedOutputs(texts) == [TextPairs(texts) -> {Percent(v) : v \in SimValues}]

CosSim(emb, t, u) == IF t = u THEN ScoreUnit ELSE emb[{t, u}]

\* list.sort(key, reverse=True): stable, descending
RECURSIVE SortDesc(_)
SortDesc(pairs) ==
    IF pairs = <<>> THEN <<>>
    ELSE LET k == CHOOSE k \in DOMAIN pairs :
                    /\ \A j \in DOMAIN pairs : pairs[j][3] <= pairs[k][3]
                    /\ \A j \in 1..(k - 1) : pairs[j][3] < pairs[k][3]
         IN  <<pairs[k]>> \o SortDesc(SubSeq(pairs, 1, k - 1) \o SubSeq(pairs, k + 1, Len(pairs)))

\* the pairs (i, j), i < j, in the order of the two nested loops
RECURSIVE LoopPairs(_, _, _)
LoopPairs(i, j, n) ==
    IF i >= n THEN <<>>
    ELSE IF j > n THEN LoopPairs(i + 1, i + 2, n)
    ELSE <<(<<i, j>>)>> \o LoopPairs(i, j + 1, n)

find_similar_documents(texts, emb, threshold) ==
    LET doc_ids == DictKeys(texts)
        doc_texts == DictValues(texts)
        ij == LoopPairs(1, 2, Len(doc_ids))
        all == [k \in DOMAIN ij |->
                  <<doc_ids[ij[k][1]], doc_ids[ij[k][2]],
                    CosSim(emb, doc_texts[ij[k][1]], doc_texts[ij[k][2]])>>]
        AboveThreshold(p) == p[3] >= threshold
    IN  IF Len(doc_texts) < 2 THEN <<>>
        ELSE SortDesc(SelectSeq(all, AboveThreshold))

\* the embedding model is only called for two or more documents
EmbedCalled(bidder_texts) == Len(AllDocs(<<>>, bidder_texts)) >= 2

\* every pair kept, the two documents of one bidder included
CrossBidder_any(p) == TRUE

\* bidder1 != bidder2, each doc_id.split(":")[0]
CrossBidder(p) == SplitFirst(p[1]) # SplitFirst(p[2])

\* s["similarity"] > 0.85
HighRisk(p) == p.similarity > Percent(85)

analyze_bidder_documents(bidder_texts, emb) ==
    LET all_docs == AllDocs(<<>>, bidder_texts)
        similar_pairs == find_similar_documents(all_docs, emb, Percent(70))
        cross == SelectSeq(similar_pairs, CrossBidder)
        cross_bidder_similarity ==
            [k \in DOMAIN cross |->
                [bidder1 |-> SplitFirst(cross[k][1]), bidder2 |-> SplitFirst(cross[k][2]),
                 document1 |-> cross[k][1], document2 |-> cross[k][2],
                 similarity |-> cross[k][3]]]
    IN  [total_comparisons |-> Len(similar_pairs),
         cross_bidder_similarities |-> cross_bidder_similarity,
         high_risk_pairs |-> SelectSeq(cross_bidder_similarity, HighRisk)]

(***************************************************************************)
(* StylometryAnalyzer (utils/stylometry.py).  A bidder's combined text is  *)
(* kept as the list of the texts joined; its feature dict is empty exactly *)
(* when the combined text has no token.                                    *)
(***************************************************************************)
\* cosine similarities of two distinct non-empty feature vectors, in percent
StyleValues == {75, 82, 90}

CombinedTexts(bidder_texts) ==
    [i \in DOMAIN bidder_texts |-> <<bidder_texts[i][1], DictValues(bidder_texts[i][2])>>]

NoFeatures(combined) == \A i \in DOMAIN combined : combined[i] = ""

StyledTexts(texts) == {t \in Range(DictValues(texts)) : ~NoFeatures(t)}

StyleOutputs(texts) == [TextPairs(StyledTexts(texts)) -> {Percent(v) : v \in StyleValues}]

\* the first feature dict gives feature_names; when it is empty the feature
\* matrix has no column and cosine_similarity raises
StyleRaises(texts) == Len(texts) >= 2 /\ NoFeatures(texts[1][2])

StyleSim(sty, t, u) ==
    IF NoFeatures(t) \/ NoFeatures(u) THEN 0
    ELSE IF t = u THEN ScoreUnit ELSE sty[{t, u}]

compare_writing_styles(texts, sty) ==
    LET doc_ids == DictKeys(texts)
        ij == LoopPairs(1, 2, Len(doc_ids))
        all == [k \in DOMAIN ij |->
                  [doc1 |-> doc_ids[ij[k][1]], doc2 |-> doc_ids[ij[k][2]],
                   similarity |-> StyleSim(sty, texts[ij[k][1]][2], texts[ij[k][2]][2])]]
        Similar(p) == p.similarity > Percent(80)
    IN  IF Len(texts) < 2 THEN [error |-> "Need at least 2 documents to compare"]
        ELSE [features |-> [i \in DOMAIN texts |-> <<texts[i][1], ~NoFeatures(texts[i][2])>>],
              similarity_pairs |-> SelectSeq(all, Similar)]

analyze_bidder_styles(bidder_texts, sty) ==
    LET results == compare_writing_styles(CombinedTexts(bidder_texts), sty)
    IN  [bidder_features |->
            IF "features" \in DOMAIN results THEN results.features ELSE <<>>,
         suspicious_style_matches |->
            IF "similarity_pairs" \in DOMAIN results THEN results.similarity_pairs ELSE <<>>]

(***************************************************************************)
(* RelationshipAnalyzer (utils/relationship_graph.py).  The nx.Graph is a  *)
(* record of its nodes and its undirected edges, both in insertion order.  *)
(***************************************************************************)
EmptyGraph == [nodes |-> <<>>, edges |-> <<>>]

add_node(G, n) ==
    IF n \in Range(G.nodes) THEN G ELSE [G EXCEPT !.nodes = Append(@, n)]

IsEdge(e, a, b) == (e.u = a /\ e.v = b) \/ (e.u = b /\ e.v = a)

has_edge(G, a, b) == \E i \in DOMAIN G.edges : IsEdge(G.edges[i], a, b)

\* the weight of an existing edge replaced by the new weight
add_relationship_overwrite(G, bidder1, bidder2, relationship_type, weight, evidence) ==
    IF has_edge(G, bidder1, bidder2)
    THEN [G EXCEPT !.edges =
            [i \in DOMAIN G.edges |->
                IF IsEdge(G.edges[i], bidder1, bidder2)
                THEN [G.edges[i] EXCEPT
                        !.weight = weight,
                        !.relationships = Append(@, relationship_type)]
                ELSE G.edges[i]]]
    ELSE LET H == add_node(add_node(G, bidder1), bidder2)
         IN  [H EXCEPT !.edges =
                Append(@, [u |-> bidder1, v |-> bidder2, weight |-> weight,
                           relationships |-> <<relationship_type>>,
                           evidence |-> evidence])]

add_relationship(G, bidder1, bidder2, relationship_type, weight, evidence) ==
    IF has_edge(G, bidder1, bidder2)
    THEN [G EXCEPT !.edges =
            [i \in DOMAIN G.edges |->
                IF IsEdge(G.edges[i], bidder1, bidder2)
                THEN [G.edges[i] EXCEPT
                        !.weight = IF @ >= weight THEN @ ELSE weight,
                        !.relationships = Append(@, relationship_type)]
                ELSE G.edges[i]]]
    ELSE LET H == add_node(add_node(G, bidder1), bidder2)
         IN  [H EXCEPT !.edges =
                Append(@, [u |-> bidder1, v |-> bidder2, weight |-> weight,
                           relationships |-> <<relationship_type>>,
                           evidence |-> evidence])]

RECURSIVE AddBidders(_, _)
AddBidders(G, bidders) ==
    IF bidders = <<>> THEN G ELSE AddBidders(add_node(G, Head(bidders)), Tail(bidders))

\* a list of add_relationship calls, applied in order
RECURSIVE AddRelationships(_, _)
AddRelationships(G, calls) ==
    IF calls = <<>> THEN G
    ELSE LET c == Head(calls)
         IN  AddRelationships(
                 add_relationship(G, c.bidder1, c.bidder2, c.type, c.weight, c.evidence),
                 Tail(calls))

SimilarityCalls(similarity_data) ==
    IF similarity_data = None THEN <<>>
    ELSE LET pairs == similarity_data.cross_bidder_similarities
         IN  [k \in DOMAIN pairs |->
                [bidder1 |-> pairs[k].bidder1, bidder2 |-> pairs[k].bidder2,
                 type |-> "document_similarity", weight |-> pairs[k].similarity,
                 evidence |-> <<<<"similarity_score", pairs[k].similarity>>>>]]

ContactFields == <<"email", "phone", "address">>

SharedType(field) ==
    IF field = "email" THEN "shared_email"
    ELSE IF field = "phone" THEN "shared_phone" ELSE "shared_address"

\* contact_data of the relationship node: bidders with a contact_info
RECURSIVE ContactData(_)
ContactData(bs) ==
    IF bs = <<>> THEN <<>>
    ELSE LET b == bs[Len(bs)]
             rest == ContactData(SubSeq(bs, 1, Len(bs) - 1))
         IN  IF b.contact_info = None THEN rest
             ELSE DictPut(rest, b.bidder_id, b.contact_info)

\* field_groups: value -> the bidders declaring it, for the non-empty values
RECURSIVE FieldGroups(_, _)
FieldGroups(contact_data, field) ==
    IF contact_data = <<>> THEN <<>>
    ELSE LET last == contact_data[Len(contact_data)]
             rest == FieldGroups(SubSeq(contact_data, 1, Len(contact_data) - 1), field)
             value == last[2][field]
         IN  IF value = "" THEN rest
             ELSE DictPut(rest, value,
                          Append(IF DictHas(rest, value) THEN DictGet(rest, value) ELSE <<>>,
                                 last[1]))

\* only the neighbours of the group's list paired
GroupCalls_adjacent(field, value, bidder_list) ==
    IF Len(bidder_list) > 1
    THEN [k \in 1..(Len(bidder_list) - 1) |->
            [bidder1 |-> bidder_list[k], bidder2 |-> bidder_list[k + 1],
             type |-> SharedType(field), weight |-> Percent(80),
             evidence |-> <<<<field, value>>>>]]
    ELSE <<>>

GroupCalls(field, value, bidder_list) ==
    LET ij == LoopPairs(1, 2, Len(bidder_list))
    IN  IF Len(bidder_list) > 1
        THEN [k \in DOMAIN ij |->
                [bidder1 |-> bidder_list[ij[k][1]], bidder2 |-> bidder_list[ij[k][2]],
                 type |-> SharedType(field), weight |-> Percent(80),
                 evidence |-> <<<<field, value>>>>]]
        ELSE <<>>

FieldCalls(contact_data, field) ==
    LET groups == FieldGroups(contact_data, field)
    IN  Concat([g \in DOMAIN groups |-> GroupCalls(field, groups[g][1], groups[g][2])])

ContactCalls(contact_data) ==
    Concat([f \in DOMAIN ContactFields |-> FieldCalls(contact_data, ContactFields[f])])

BuildGraph(bidders, similarity_data, contact_data) ==
    AddRelationships(AddBidders(EmptyGraph, bidders),
                     SimilarityCalls(similarity_data) \o ContactCalls(contact_data))

\* --- community.greedy_modularity_communities (unweighted) ---
EdgesBetween(G, A, B) ==
    Cardinality({i \in DOMAIN G.edges :
        \/ (G.edges[i].u \in A /\ G.edges[i].v \in B)
        \/ (G.edges[i].u \in B /\ G.edges[i].v \in A)})

Degree(G, n) == Cardinality({i \in DOMAIN G.edges : n \in {G.edges[i].u, G.edges[i].v}})

RECURSIVE DegreeSum(_, _)
DegreeSum(G, A) ==
    IF A = {} THEN 0
    ELSE LET n == CHOOSE n \in A : TRUE IN Degree(G, n) + DegreeSum(G, A \ {n})

\* the modularity gain of merging A and B, times (2m)^2 / 2
MergeGain(G, A, B) ==
    2 * Len(G.edges) * EdgesBetween(G, A, B) - DegreeSum(G, A) * DegreeSum(G, B)

\* the partitions the greedy merging can end in; a tie between the best
\* merges is broken by the library's heap order, so each choice is kept
RECURSIVE GreedyMerge(_, _)
GreedyMerge(G, P) ==
    LET cand == {AB \in SUBSET P : \E A \in P, B \in P :
                    A # B /\ AB = {A, B} /\ EdgesBetween(G, A, B) > 0}
        Gain(AB) == LET A == CHOOSE A \in AB : TRUE
                        B == CHOOSE B \in AB : B # A
                    IN  MergeGain(G, A, B)
        best == {AB \in cand : \A CD \in cand : Gain(CD) <= Gain(AB)}
    IN  IF Cardinality(P) <= 1 \/ cand = {} THEN {P}
        ELSE IF \E AB \in best : Gain(AB) < 0 THEN {P}
        ELSE UNION {GreedyMerge(G, (P \ AB) \cup {UNION AB}) : AB \in best}

greedy_modularity_communities(G) == GreedyMerge(G, {{n} : n \in Range(G.nodes)})

\* the outcomes of detect_communities: the communities of more than one
\* bidder, as sets
detect_communities(G) ==
    IF Len(G.nodes) < 2 THEN {{}}
    ELSE {{c \in P : Cardinality(c) > 1} : P \in greedy_modularity_communities(G)}

\* nx.find_cliques: the maximal cliques; the suspicious ones have min_size
IsClique(G, C) == \A a \in C, b \in C : a = b \/ has_edge(G, a, b)

find_suspicious_cliques(G, min_size) ==
    {C \in SUBSET Range(G.nodes) :
        /\ C # {} /\ IsClique(G, C)
        /\ \A D \in SUBSET Range(G.nodes) : (C \subseteq D /\ IsClique(G, D)) => D = C
        /\ Cardinality(C) >= min_size}

\* the enumerations of a set of groups, largest first when by_size
Orderings(S, by_size) ==
    {s \in [1..Cardinality(S) -> S] :
        /\ Range(s) = S
        /\ by_size => \A i \in DOMAIN s, j \in DOMAIN s :
                         i < j => Cardinality(s[i]) >= Cardinality(s[j])}

\* the members of a group, listed in node order
Members(G, C) == LET In(n) == n \in C IN SelectSeq(G.nodes, In)

\* the second half of analyze_bidder_network: the results the analysis of
\* the analyzer's graph can return
AnalyzeGraph(G) ==
    {LET big == SelectSeq(communities, LAMBDA c : Cardinality(c) >= 3)
     IN  [num_bidders |-> Len(G.nodes),
          num_relationships |-> Len(G.edges),
          communities |-> [k \in DOMAIN communities |-> Members(G, communities[k])],
          suspicious_cliques |-> [k \in DOMAIN cliques |-> Members(G, cliques[k])],
          high_risk_groups |->
              [k \in DOMAIN big |->
                  [bidders |-> Members(G, big[k]), size |-> Cardinality(big[k]),
                   type |-> "community"]]
              \o [k \in DOMAIN cliques |->
                  [bidders |-> Members(G, cliques[k]), size |-> Cardinality(cliques[k]),
                   type |-> "clique"]],
          graph_data |-> G]
     : communities \in UNION {Orderings(cs, TRUE) : cs \in detect_communities(G)},
       cliques \in Orderings(find_suspicious_cliques(G, 3), FALSE)}

\* the results analyze_bidder_network can return
analyze_bidder_network(bidders, similarity_data, contact_data) ==
    AnalyzeGraph(BuildGraph(bidders, similarity_data, contact_data))

(***************************************************************************)
(* The workflow (agents/workflow.py) and its state (TenderAnalysisState).  *)
(***************************************************************************)
VARIABLES
    bidders,              \* request: the BidderInfo list
    uploaded_documents,   \* request: the document paths
    extracted_text,       \* {path: text}
    price_analysis,       \* result slots, None until written
    similarity_analysis,
    stylometry_analysis,
    relationship_graph,
    risk_signals,         \* list of RiskSignal
    overall_risk_score,
    current_step,
    analysis_complete,
    error,
    pc,                   \* the node the compiled graph runs next, or END
    executed,             \* history: the nodes run so far, in order
    raised,               \* history: the nodes whose body raised, in order
    sim_matrix,           \* history: the similarities the embedding model returned
    graph,                \* relationship_analyzer.graph, the module-level analyzer's graph
    calls,                \* history: the add_relationship calls since the graph was cleared
    runs                  \* concurrent runs in their relationship stage: position, request, result

vars == <<bidders, uploaded_documents, extracted_text, price_analysis,
          similarity_analysis, stylometry_analysis, relationship_graph,
          risk_signals, overall_risk_score, current_step, analysis_complete,
          error, pc, executed, raised, sim_matrix, graph, calls, runs>>

request == <<bidders, uploaded_documents>>

END == "__end__"

\* an entry of uploaded_documents that is not a path (None)
BadPath == "<not a path>"

EntryPoint == "extract_documents"

\* an edge that leads back to an earlier node
Edge_rerun(node) ==
    CASE node = "extract_documents"        -> "analyze_prices"
      [] node = "analyze_prices"           -> "analyze_similarity"
      [] node = "analyze_similarity"       -> "analyze_stylometry"
      [] node = "analyze_stylometry"       -> "analyze_similarity"
      [] node = "build_relationship_graph" -> "generate_report"
      [] node = "generate_report"          -> END

\* the stylometry and relationship nodes wired in the other order
Edge_swapped(node) ==
    CASE node = "extract_documents"        -> "analyze_prices"
      [] node = "analyze_prices"           -> "analyze_similarity"
      [] node = "analyze_similarity"       -> "build_relationship_graph"
      [] node = "build_relationship_graph" -> "analyze_stylometry"
      [] node = "analyze_stylometry"       -> "generate_report"
      [] node = "generate_report"          -> END

\* workflow.add_edge(...); every branch of should_continue leads to END
Edge(node) ==
    CASE node = "extract_documents"        -> "analyze_prices"
      [] node = "analyze_prices"           -> "analyze_similarity"
      [] node = "analyze_similarity"       -> "analyze_stylometry"
      [] node = "analyze_stylometry"       -> "build_relationship_graph"
      [] node = "build_relationship_graph" -> "generate_report"
      [] node = "generate_report"          -> END

ExtractError == "expected str, bytes or os.PathLike object, not NoneType"

PriceError == "float division by zero"

EmbedError == "embedding model failed"

StyleError == "Found array with 0 feature(s) while a minimum of 1 is required"

LLMError == "chat model request failed"

\* state.get("risk_signals", []) + risk_signals
ExtendSignals_overwrite(signals, new_signals) == new_signals

ExtendSignals(signals, new_signals) == signals \o new_signals

\* run_analysis: initial_state for a request
Init ==
    /\ bidders \in Requests
    /\ uploaded_documents \in
         {AllDocuments(bidders), Append(AllDocuments(bidders), BadPath)}
    /\ extracted_text = <<>>
    /\ price_analysis = None
    /\ similarity_analysis = None
    /\ stylometry_analysis = None
    /\ relationship_graph = None
    /\ risk_signals = <<>>
    /\ overall_risk_score = 0
    /\ current_step = "initialized"
    /\ analysis_complete = FALSE
    /\ error = NoError
    /\ pc = EntryPoint
    /\ executed = <<>>
    /\ raised = <<>>
    /\ sim_matrix = <<>>
    /\ graph = EmptyGraph
    /\ calls = <<>>
    /\ runs = <<>>

\* the graph runs node and follows its edge
Step(node) ==
    /\ pc = node
    /\ pc' = Edge(node)
    /\ executed' = Append(executed, node)
    /\ UNCHANGED <<request, runs>>

\* the except branch also returning an empty signal list
Raise_discard(node, message) ==
    /\ error' = message
    /\ raised' = Append(raised, node)
    /\ current_step' = IF node = "extract_documents"
                       THEN "document_extraction_failed" ELSE current_step
    /\ risk_signals' = <<>>

\* a node whose body raised returns {"error": str(e)}, the extract node
\* with its current_step; the merge leaves every other key as it was
Raise(node, message) ==
    /\ error' = message
    /\ raised' = Append(raised, node)
    /\ current_step' = IF node = "extract_documents"
                       THEN "document_extraction_failed" ELSE current_step
    /\ UNCHANGED risk_signals

extract_documents_node ==
    /\ Step("extract_documents")
    /\ IF BadPath \in Range(uploaded_documents)
       THEN /\ Raise("extract_documents", ExtractError)
            /\ UNCHANGED extracted_text
       ELSE /\ extracted_text' = process_tender_documents(uploaded_documents)
            /\ current_step' = "document_extraction"
            /\ UNCHANGED <<error, raised, risk_signals>>
    /\ UNCHANGED <<price_analysis, similarity_analysis, stylometry_analysis,
                   relationship_graph, overall_risk_score, analysis_complete>>
    /\ UNCHANGED <<sim_matrix, graph, calls>>

analyze_prices_node ==
    /\ Step("analyze_prices")
    /\ LET bidder_prices == BidderPrices(bidders)
       IN  IF CoverBiddingRaises(bidder_prices)
           THEN /\ Raise("analyze_prices", PriceError)
                /\ UNCHANGED price_analysis
           ELSE LET price_results == analyze_price_patterns(bidder_prices)
                    new_signals ==
                        IF price_results.risk_score > 0
                        THEN <<RiskSignal("price_anomaly", price_results.severity,
                                          price_results.risk_score,
                                          DictKeys(bidder_prices))>>
                        ELSE <<>>
                IN  /\ price_analysis' = price_results
                    /\ risk_signals' = ExtendSignals(risk_signals, new_signals)
                    /\ current_step' = "price_analysis"
                    /\ UNCHANGED <<error, raised>>
    /\ UNCHANGED <<extracted_text, similarity_analysis, stylometry_analysis,
                   relationship_graph, overall_risk_score, analysis_complete>>
    /\ UNCHANGED <<sim_matrix, graph, calls>>

SimilaritySignal(pair) ==
    RiskSignal("document_similarity",
               IF pair.similarity > Percent(90) THEN "high" ELSE "medium",
               pair.similarity, <<pair.bidder1, pair.bidder2>>)

analyze_similarity_node ==
    /\ Step("analyze_similarity")
    /\ LET bidder_texts == BidderTexts(bidders, extracted_text)
           texts == Range(DictValues(AllDocs(<<>>, bidder_texts)))
       IN  \/ \* the embedding model raises
              /\ EmbedCalled(bidder_texts)
              /\ Raise("analyze_similarity", EmbedError)
              /\ UNCHANGED <<similarity_analysis, sim_matrix>>
           \/ \E emb \in EmbedOutputs(texts) :
                LET similarity_results == analyze_bidder_documents(bidder_texts, emb)
                    high_risk_pairs == similarity_results.high_risk_pairs
                IN  /\ similarity_analysis' = similarity_results
                    /\ sim_matrix' = emb
                    /\ risk_signals' = ExtendSignals(risk_signals,
                         [k \in DOMAIN high_risk_pairs |-> SimilaritySignal(high_risk_pairs[k])])
                    /\ current_step' = "similarity_analysis"
                    /\ UNCHANGED <<error, raised>>
    /\ UNCHANGED <<extracted_text, price_analysis, stylometry_analysis,
                   relationship_graph, overall_risk_score, analysis_complete,
                   graph, calls>>

StylometrySignal(match) ==
    RiskSignal("stylometry",
               IF match.similarity > Percent(85) THEN "high" ELSE "medium",
               match.similarity, <<match.doc1, match.doc2>>)

analyze_stylometry_node ==
    /\ Step("analyze_stylometry")
    /\ LET bidder_texts == BidderTexts(bidders, extracted_text)
           combined == CombinedTexts(bidder_texts)
       IN  IF StyleRaises(combined)
           THEN /\ Raise("analyze_stylometry", StyleError)
                /\ UNCHANGED stylometry_analysis
           ELSE \E sty \in StyleOutputs(combined) :
                LET stylometry_results == analyze_bidder_styles(bidder_texts, sty)
                    suspicious_matches == stylometry_results.suspicious_style_matches
                IN  /\ stylometry_analysis' = stylometry_results
                    /\ risk_signals' = ExtendSignals(risk_signals,
                         [k \in DOMAIN suspicious_matches |->
                             StylometrySignal(suspicious_matches[k])])
                    /\ current_step' = "stylometry_analysis"
                    /\ UNCHANGED <<error, raised>>
    /\ UNCHANGED <<extracted_text, price_analysis, similarity_analysis,
                   relationship_graph, overall_risk_score, analysis_complete>>
    /\ UNCHANGED <<sim_matrix, graph, calls>>

\* the group size taken as the score, not divided by the number of bidders
RelationshipSignal_unnormalised(group, bidder_ids) ==
    RiskSignal("relationship_network",
               IF group.size >= 4 THEN "high" ELSE "medium",
               group.size * ScoreUnit,
               group.bidders)

RelationshipSignal(group, bidder_ids) ==
    LET ratio == (group.size * ScoreUnit) \div Len(bidder_ids)
    IN  RiskSignal("relationship_network",
                   IF group.size >= 4 THEN "high" ELSE "medium",
                   IF ratio < ScoreUnit THEN ratio ELSE ScoreUnit,
                   group.bidders)

build_relationship_graph_node ==
    /\ Step("build_relationship_graph")
    /\ LET bidder_ids == [i \in DOMAIN bidders |-> bidders[i].bidder_id]
           contact_data == ContactData(bidders)
       IN  \E graph_results \in
                analyze_bidder_network(bidder_ids, similarity_analysis, contact_data) :
             LET high_risk_groups == graph_results.high_risk_groups
             IN  /\ relationship_graph' = graph_results
                 /\ graph' = graph_results.graph_data
                 /\ calls' = SimilarityCalls(similarity_analysis) \o ContactCalls(contact_data)
                 /\ risk_signals' = ExtendSignals(risk_signals,
                      [k \in DOMAIN high_risk_groups |->
                          RelationshipSignal(high_risk_groups[k], bidder_ids)])
                 /\ current_step' = "relationship_graph"
    /\ UNCHANGED <<extracted_text, price_analysis, similarity_analysis,
                   stylometry_analysis, overall_risk_score, analysis_complete,
                   error, raised, sim_matrix>>

\* max(risk_scores) if risk_scores else 0.0
OverallRisk(signals) ==
    IF signals = <<>> THEN 0
    ELSE SeqMax([k \in DOMAIN signals |-> signals[k].score])

generate_report_node ==
    /\ Step("generate_report")
    /\ \/ \* llm.invoke raises
          /\ Raise("generate_report", LLMError)
          /\ UNCHANGED <<overall_risk_score, analysis_complete>>
       \/ /\ overall_risk_score' = OverallRisk(risk_signals)
          /\ current_step' = "report_generation"
          /\ analysis_complete' = TRUE
          /\ UNCHANGED <<error, raised, risk_signals>>
    /\ UNCHANGED <<extracted_text, price_analysis, similarity_analysis,
                   stylometry_analysis, relationship_graph>>
    /\ UNCHANGED <<sim_matrix, graph, calls>>

Next ==
    \/ extract_documents_node
    \/ analyze_prices_node
    \/ analyze_similarity_node
    \/ analyze_stylometry_node
    \/ build_relationship_graph_node
    \/ generate_report_node

Spec == Init /\ [][Next]_vars

(***************************************************************************)
(* The relationship analyzer on its own: add_relationship called any       *)
(* number of times, up to MaxCalls, on the analyzer's graph.               *)
(***************************************************************************)
MaxCalls == 3

CallBidders == {"B1", "B2", "B3"}

CallTypes == {"document_similarity", "shared_email"}

\* the weights of the calls: 0.8 for a shared contact, a similarity otherwise
CallWeights == {Percent(80), Percent(95)}

CallEvidence(relationship_type, weight) ==
    IF relationship_type = "document_similarity"
    THEN <<<<"similarity_score", weight>>>>
    ELSE <<<<"email", "x@x.com">>>>

GraphInit == Init /\ bidders = <<>> /\ uploaded_documents = <<>>

add_relationship_call ==
    /\ Len(calls) < MaxCalls
    /\ \E bidder1 \in CallBidders, bidder2 \in CallBidders,
          relationship_type \in CallTypes, weight \in CallWeights :
          /\ bidder1 # bidder2
          /\ graph' = add_relationship(graph, bidder1, bidder2, relationship_type, weight,
                                       CallEvidence(relationship_type, weight))
          /\ calls' = Append(calls,
                 [bidder1 |-> bidder1, bidder2 |-> bidder2, type |-> relationship_type,
                  weight |-> weight, evidence |-> CallEvidence(relationship_type, weight)])
    /\ UNCHANGED <<bidders, uploaded_documents, extracted_text, price_analysis,
                   similarity_analysis, stylometry_analysis, relationship_graph,
                   risk_signals, overall_risk_score, current_step, analysis_complete,
                   error, pc, executed, raised, sim_matrix, runs>>

GraphNext == add_relationship_call

GraphSpec == GraphInit /\ [][GraphNext]_vars

(***************************************************************************)
(* Two runs in their relationship stage at the same time.  Both call the   *)
(* one module-level relationship_analyzer of agents/nodes.py, whose graph  *)
(* is the variable graph; a run's position is a step of                    *)
(* analyze_bidder_network.                                                 *)
(***************************************************************************)
Runs == {1, 2}

\* requests of the concurrent runs: two or three bidders, named from B1 or
\* from B3, none or all of them declaring one email
ConcurrentRequests ==
    {[i \in 1..n |-> BidderInfo(BidderName[first + i - 1], PositionAmount[i], <<>>, c)]
        : n \in 2..3, first \in {1, 3}, c \in {None, ContactInfo("x@x.com", "", "")}}

\* the similarity_analysis of a request without documents
EmptySimilarity ==
    [total_comparisons |-> 0, cross_bidder_similarities |-> <<>>, high_risk_pairs |-> <<>>]

RunBidderIds(r) == [i \in DOMAIN runs[r].bidders |-> runs[r].bidders[i].bidder_id]

ConcurrentInit ==
    /\ bidders = <<>>
    /\ uploaded_documents = <<>>
    /\ extracted_text = <<>>
    /\ price_analysis = None
    /\ similarity_analysis = None
    /\ stylometry_analysis = None
    /\ relationship_graph = None
    /\ risk_signals = <<>>
    /\ overall_risk_score = 0
    /\ current_step = "initialized"
    /\ analysis_complete = FALSE
    /\ error = NoError
    /\ pc = EntryPoint
    /\ executed = <<>>
    /\ raised = <<>>
    /\ sim_matrix = <<>>
    /\ graph = EmptyGraph
    /\ calls = <<>>
    /\ runs \in [Runs -> {[pc |-> "clear", bidders |-> b, relationship_graph |-> None]
                            : b \in ConcurrentRequests}]

\* a step of run r, which touches the analyzer's graph and the run alone
RunStep(r, from, to) ==
    /\ runs[r].pc = from
    /\ UNCHANGED <<bidders, uploaded_documents, extracted_text, price_analysis,
                   similarity_analysis, stylometry_analysis, relationship_graph,
                   risk_signals, overall_risk_score, current_step, analysis_complete,
                   error, pc, executed, raised, sim_matrix, calls>>

\* self.graph.clear()
analyzer_clear(r) ==
    /\ RunStep(r, "clear", "add_bidders")
    /\ graph' = EmptyGraph
    /\ runs' = [runs EXCEPT ![r].pc = "add_bidders"]

\* for bidder_id in bidders: self.add_bidder(bidder_id)
analyzer_add_bidders(r) ==
    /\ RunStep(r, "add_bidders", "add_relationships")
    /\ graph' = AddBidders(graph, RunBidderIds(r))
    /\ runs' = [runs EXCEPT ![r].pc = "add_relationships"]

\* the similarity loop and the contact loop
analyzer_add_relationships(r) ==
    /\ RunStep(r, "add_relationships", "analyze")
    /\ graph' = AddRelationships(graph,
                    SimilarityCalls(EmptySimilarity)
                        \o ContactCalls(ContactData(runs[r].bidders)))
    /\ runs' = [runs EXCEPT ![r].pc = "analyze"]

\* communities, cliques and graph_data read from self.graph
analyzer_analyze(r) ==
    /\ RunStep(r, "analyze", "done")
    /\ \E graph_results \in AnalyzeGraph(graph) :
          runs' = [runs EXCEPT ![r].pc = "done", ![r].relationship_graph = graph_results]
    /\ UNCHANGED graph

ConcurrentNext ==
    \E r \in Runs :
        \/ analyzer_clear(r)
        \/ analyzer_add_bidders(r)
        \/ analyzer_add_relationships(r)
        \/ analyzer_analyze(r)

ConcurrentSpec == ConcurrentInit /\ [][ConcurrentNext]_vars

(***************************************************************************)
(* Properties of a run.                                                    *)
(***************************************************************************)
Returned == pc = END

StageOrder ==
    <<"extract_documents", "analyze_prices", "analyze_similarity",
      "analyze_stylometry", "build_relationship_graph", "generate_report">>

\* the '<stage>_failed' value of current_step for a node
FailedStep(node) ==
    CASE node = "extract_documents"        -> "document_extraction_failed"
      [] node = "analyze_prices"           -> "price_analysis_failed"
      [] node = "analyze_similarity"       -> "similarity_analysis_failed"
      [] node = "analyze_stylometry"       -> "stylometry_analysis_failed"
      [] node = "build_relationship_graph" -> "relationship_graph_failed"
      [] node = "generate_report"          -> "report_generation_failed"

\* the message a node's failure puts in error
ErrorOf(node) ==
    CASE node = "extract_documents"  -> ExtractError
      [] node = "analyze_prices"     -> PriceError
      [] node = "analyze_similarity" -> EmbedError
      [] node = "analyze_stylometry" -> StyleError
      [] node = "generate_report"    -> LLMError

IsPrefix(s, t) == Len(s) <= Len(t) /\ s = SubSeq(t, 1, Len(s))

\* C1: when one of the five analysis stages fails the pipeline stops: the
\* failing stage is the last node executed, so no later stage runs, writes
\* its slot or appends a signal.
C1_StopsAtFailure ==
    \A k \in DOMAIN raised :
        raised[k] # "generate_report" => executed[Len(executed)] = raised[k]

\* C2: the state returned after a stage failure has current_step =
\* '<stage>_failed' of the failing stage, error populated and
\* analysis_complete = false (for the similarity stage:
\* 'similarity_analysis_failed', with price_analysis still present).
C2_FailedStepReported ==
    (Returned /\ raised # <<>>) =>
        /\ current_step = FailedStep(raised[1])
        /\ error # NoError
        /\ analysis_complete = FALSE

\* C3: in every returned state, error non-null implies analysis_complete
\* is false.
C3_ErrorExcludesComplete ==
    Returned => (error # NoError => analysis_complete = FALSE)

\* C4: when the five earlier stages succeeded and only the summarizer call
\* raised, the returned state has analysis_complete = true and error null.
C4_SummarizerFailureNonFatal ==
    (Returned /\ raised = <<"generate_report">>) =>
        (analysis_complete = TRUE /\ error = NoError)

\* C5: in every returned state overall_risk_score is the maximum score over
\* risk_signals, or 0 when there is none.
C5_OverallIsMaxAtReturn ==
    Returned => overall_risk_score = OverallRisk(risk_signals)

\* C6: every step of a run, failing or not, leaves the previous risk_signals
\* as a prefix of the new list: signals are only appended.
C6_SignalsOnlyGrow == [][IsPrefix(risk_signals, risk_signals')]_vars

\* a returned run in which three stages appended signals and one stage raised
C6_Witness ==
    /\ Returned
    /\ raised # <<>>
    /\ Cardinality({risk_signals[k].signal_type : k \in DOMAIN risk_signals}) >= 3

\* C7: a result slot changes only in the step of its own stage and only
\* from its unwritten value (None; the empty map for extracted_text), so a
\* written slot is never changed again.
C7_SlotsWrittenOnce ==
    [][/\ extracted_text' # extracted_text =>
            (pc = "extract_documents" /\ extracted_text = <<>>)
       /\ price_analysis' # price_analysis =>
            (pc = "analyze_prices" /\ price_analysis = None)
       /\ similarity_analysis' # similarity_analysis =>
            (pc = "analyze_similarity" /\ similarity_analysis = None)
       /\ stylometry_analysis' # stylometry_analysis =>
            (pc = "analyze_stylometry" /\ stylometry_analysis = None)
       /\ relationship_graph' # relationship_graph =>
            (pc = "build_relationship_graph" /\ relationship_graph = None)]_vars

\* a returned run in which all five slots were written
C7_Witness ==
    /\ Returned
    /\ extracted_text # <<>>
    /\ price_analysis # None
    /\ similarity_analysis # None
    /\ stylometry_analysis # None
    /\ relationship_graph # None

\* C8: the nodes run in the fixed order extract, price, similarity,
\* stylometry, relationships, summarize, each at most once; the relationship
\* stage runs only after the similarity stage, and the stylometry stage runs
\* while relationship_graph is still unwritten.
C8_FixedOrder ==
    /\ IsPrefix(executed, StageOrder)
    /\ pc = (IF Len(executed) < Len(StageOrder)
             THEN StageOrder[Len(executed) + 1] ELSE END)
    /\ pc = "analyze_stylometry" => relationship_graph = None
    /\ relationship_graph # None => "analyze_similarity" \in Range(executed)

\* a returned run in which all six nodes have run and the relationship
\* stage used the similarity result
C8_Witness ==
    /\ Returned
    /\ executed = StageOrder
    /\ relationship_graph # None
    /\ \E i \in DOMAIN relationship_graph.graph_data.edges :
          "document_similarity" \in
              Range(relationship_graph.graph_data.edges[i].relationships)

\* C9: error holds the message of the first stage that failed; a later
\* failure never overwrites it.
C9_ErrorIsFirstFailure ==
    raised # <<>> => error = ErrorOf(raised[1])

\* the request is invalid: no bidder, a bid that is not positive, or a
\* bidder_id used twice
InvalidRequest ==
    \/ bidders = <<>>
    \/ \E i \in DOMAIN bidders : bidders[i].bid_amount <= 0
    \/ \E i \in DOMAIN bidders, j \in DOMAIN bidders :
          i # j /\ bidders[i].bidder_id = bidders[j].bidder_id

\* C10: an invalid request is rejected before any stage runs: no result
\* slot is written and no risk signal is emitted.
C10_InvalidRequestRejected ==
    InvalidRequest =>
        /\ extracted_text = <<>>
        /\ price_analysis = None
        /\ similarity_analysis = None
        /\ stylometry_analysis = None
        /\ relationship_graph = None
        /\ risk_signals = <<>>

(***************************************************************************)
(* Properties of the signals.                                              *)
(***************************************************************************)
SignalsOfType(type) ==
    SelectSeq(risk_signals, LAMBDA sg : sg.signal_type = type)

LowVariationIndicator == "Low price variation (potential coordination)"

RoundNumberIndicator == "High proportion of round number bids"

\* the bid map of the request
BidMap == BidderPrices(bidders)

\* two bidders with distinct ids and positive bids, and no document at all
TwoBiddersNoDocuments ==
    /\ Len(bidders) = 2
    /\ ~InvalidRequest
    /\ uploaded_documents = <<>>

\* C11: a run over two bidders with no documents and a working summarizer
\* completes with analysis_complete = true and no risk signal.
C11_TwoBiddersCleanRun ==
    (Returned /\ TwoBiddersNoDocuments /\ "generate_report" \notin Range(raised)) =>
        (analysis_complete = TRUE /\ risk_signals = <<>>)

\* C12: with fewer than three bids the outlier analysis reports insufficient
\* data; the low-variation indicator is not raised from the missing
\* statistics, and without a cover pattern or a majority of round bids no
\* price_anomaly signal is emitted.
C12_InsufficientDataNoIndicator ==
    (price_analysis # None /\ "error" \in DOMAIN price_analysis.outlier_analysis) =>
        /\ LowVariationIndicator \notin Range(price_analysis.risk_indicators)
        /\ (/\ price_analysis.cover_bidding_analysis.suspicious_patterns = {}
            /\ 2 * price_analysis.round_numbers <= Len(BidMap))
           => SignalsOfType("price_anomaly") = <<>>

\* three or more bids, all positive
PositiveBids(p) == Len(p) >= 3 /\ \A i \in DOMAIN p : p[i] > 0

PositiveBidMap == PositiveBids(DictValues(BidMap))

\* cv < 0.1 from the deviations: with d_i = n * p_i - S, cv^2 is
\* sum(d_i^2) / (n * S^2); the prices are taken in units of their common divisor
CvBelowTenth(p) ==
    LET g == SeqGcd(p)
        n == Len(p)
        S == SeqSum(p) \div g
        d == [i \in DOMAIN p |-> n * (p[i] \div g) - S]
    IN  100 * SeqSum([i \in DOMAIN d |-> d[i] * d[i]]) < n * S * S

\* some bid more than 15% above the lowest has another bid at or above it
\* and less than 5% away
CoverPatternExists(p) ==
    \E i \in DOMAIN p, j \in DOMAIN p :
       /\ i # j
       /\ \E k \in DOMAIN p : (p[i] - p[k]) * 100 > 15 * p[k]
       /\ p[j] >= p[i]
       /\ (p[j] - p[i]) * 100 < 5 * p[i]

\* more than half of the bids are divisible by 500
RoundRatioAboveHalf(p) ==
    2 * Cardinality({i \in DOMAIN p : p[i] % 500 = 0}) > Len(p)

\* the price stage has just returned
PriceStageReturned == pc = "analyze_similarity" /\ price_analysis # None

\* the similarity stage has just returned
SimilarityStageReturned == pc = "analyze_stylometry" /\ similarity_analysis # None

ExpectedPriceScore(p) ==
    LET raw == (IF CvBelowTenth(p) THEN Tenths(3) ELSE 0)
               + (IF CoverPatternExists(p) THEN Tenths(4) ELSE 0)
               + (IF RoundRatioAboveHalf(p) THEN Tenths(2) ELSE 0)
    IN  IF raw > ScoreUnit THEN ScoreUnit ELSE raw

\* C13: for a bid map of three or more positive bids the price risk_score
\* is min(1, 0.3 [cv < 0.1] + 0.4 [a cover pattern] + 0.2 [round ratio >
\* 0.5]), and the price stage appends exactly one price_anomaly signal
\* listing all bidder ids when the score is positive, none when it is 0
\* (stated of the state the price stage returns).
C13_PriceScore ==
    PriceStageReturned =>
        LET bid_map == BidMap
            p == DictValues(bid_map)
        IN  PositiveBids(p) =>
              LET expected == ExpectedPriceScore(p)
                  sigs == SignalsOfType("price_anomaly")
              IN  /\ price_analysis.risk_score = expected
                  /\ IF expected > 0
                     THEN /\ Len(sigs) = 1
                          /\ sigs[1].score = expected
                          /\ sigs[1].affected_bidders = DictKeys(bid_map)
                     ELSE sigs = <<>>

\* the price stage scored 0.9: all three indicators on three positive bids
C13_Witness ==
    /\ PriceStageReturned
    /\ PositiveBidMap
    /\ price_analysis.risk_score = Tenths(9)
    /\ Len(SignalsOfType("price_anomaly")) = 1

\* C14: every signal's severity follows its type's ladder: price_anomaly
\* high above 0.7, medium above 0.4 up to 0.7, else low; document_similarity
\* high above 0.9 else medium; stylometry high above 0.85 else medium;
\* relationship_network high for a group of four or more, else medium.
C14_SeverityLadder ==
    \A k \in DOMAIN risk_signals :
        LET sg == risk_signals[k]
        IN  sg.severity =
              CASE sg.signal_type = "price_anomaly" ->
                     IF sg.score > Tenths(7) THEN "high"
                     ELSE IF sg.score > Tenths(4) THEN "medium" ELSE "low"
                [] sg.signal_type = "document_similarity" ->
                     IF sg.score > Percent(90) THEN "high" ELSE "medium"
                [] sg.signal_type = "stylometry" ->
                     IF sg.score > Percent(85) THEN "high" ELSE "medium"
                [] sg.signal_type = "relationship_network" ->
                     IF Len(sg.affected_bidders) >= 4 THEN "high" ELSE "medium"

HasSignal(type, severity) ==
    \E k \in DOMAIN risk_signals :
        risk_signals[k].signal_type = type /\ risk_signals[k].severity = severity

\* a returned run with a high price signal, both rungs of the document and
\* stylometry ladders, and a relationship group of four
C14_Witness ==
    /\ Returned
    /\ HasSignal("price_anomaly", "high")
    /\ HasSignal("document_similarity", "high")
    /\ HasSignal("document_similarity", "medium")
    /\ HasSignal("stylometry", "high")
    /\ HasSignal("stylometry", "medium")
    /\ HasSignal("relationship_network", "high")

IdenticalBidsReturned ==
    Returned /\ bidders = IdenticalBids /\ uploaded_documents = <<>>

\* C16 as stated: in the 'identical bids' scenario the price result has
\* coefficient_variation 0 and the low-variation indicator, and the run emits
\* exactly one price_anomaly signal, of severity low, with overall_risk_score
\* 0.3.
C16_IdenticalBidsLow ==
    IdenticalBidsReturned =>
        /\ price_analysis.outlier_analysis.coefficient_variation_sq.num = 0
        /\ LowVariationIndicator \in Range(price_analysis.risk_indicators)
        /\ Len(risk_signals) = 1
        /\ risk_signals[1].signal_type = "price_anomaly"
        /\ risk_signals[1].severity = "low"
        /\ overall_risk_score = Tenths(3)

\* C16: in the 'identical bids' scenario the price result has
\* coefficient_variation 0 and the low-variation and round-number
\* indicators; the run emits exactly one signal, a price_anomaly of score 0.5
\* and severity medium; overall_risk_score is 0.5 once the report stage has
\* computed it and stays 0 when the summarizer call raised.
C16_IdenticalBidsMedium ==
    IdenticalBidsReturned =>
        /\ price_analysis.outlier_analysis.coefficient_variation_sq.num = 0
        /\ price_analysis.risk_indicators = <<LowVariationIndicator, RoundNumberIndicator>>
        /\ Len(risk_signals) = 1
        /\ risk_signals[1].signal_type = "price_anomaly"
        /\ risk_signals[1].score = Tenths(5)
        /\ risk_signals[1].severity = "medium"
        /\ overall_risk_score = (IF analysis_complete THEN Tenths(5) ELSE 0)

\* the scenario returned with the report computed
C16_Witness ==
    IdenticalBidsReturned /\ analysis_complete = TRUE

\* the patterns of the price result, as pairs of bidder ids
PatternPairs ==
    {<<pt.bidder1, pt.bidder2>> :
        pt \in price_analysis.cover_bidding_analysis.suspicious_patterns}

\* bid i is more than 15% above the lowest bid
AboveGate(p, i) ==
    LET lowest == CHOOSE m \in Range(p) : \A x \in Range(p) : m <= x
    IN  lowest > 0 /\ (p[i] - lowest) * 100 > 15 * lowest

\* bid j is less than 5% away from bid i
WithinFivePercent(p, i, j) ==
    (IF p[j] >= p[i] THEN p[j] - p[i] ELSE p[i] - p[j]) * 100 < 5 * p[i]

\* C17 as stated: the patterns are exactly the ordered pairs (i, j) with bid
\* i more than 15% above the lowest, p_j > p_i strictly and the two less than
\* 5% apart, so equal prices are never paired; for 80000, 100000, 101000 the
\* only pattern is (B2, B3).
C17_StrictlyHigherPairs ==
    (PriceStageReturned /\ Len(BidMap) >= 2) =>
        LET p == DictValues(BidMap)
            ids == DictKeys(BidMap)
        IN  /\ PatternPairs =
                 {<<ids[ij[1]], ids[ij[2]]>> :
                     ij \in {ij \in (DOMAIN p) \X (DOMAIN p) :
                               /\ AboveGate(p, ij[1])
                               /\ p[ij[2]] > p[ij[1]]
                               /\ WithinFivePercent(p, ij[1], ij[2])}}
            /\ bidders = CoverBids => PatternPairs = {<<"B2", "B3">>}

\* C17: the patterns pair bid i, more than 15% above the lowest, with every
\* other bid j at or above it and less than 5% away, one pattern per
\* unordered pair of bidders with price1 <= price2; the gate is applied to i
\* only, and two gated bidders with equal prices are paired once; for 80000,
\* 100000, 101000 the only pattern is (B2, B3) (stated of the price result
\* in the state the price stage returns).
C17_ClusteredPairs ==
    PriceStageReturned =>
        LET bid_map == BidMap
            p == DictValues(bid_map)
            ids == DictKeys(bid_map)
            patterns == price_analysis.cover_bidding_analysis.suspicious_patterns
            close == {ij \in (DOMAIN p) \X (DOMAIN p) :
                        /\ ij[1] # ij[2]
                        /\ AboveGate(p, ij[1])
                        /\ p[ij[2]] >= p[ij[1]]
                        /\ WithinFivePercent(p, ij[1], ij[2])}
            unordered == {{ids[ij[1]], ids[ij[2]]} : ij \in close}
        IN  Len(p) >= 2 =>
              /\ {{pt.bidder1, pt.bidder2} : pt \in patterns} = unordered
              /\ Cardinality(patterns) = Cardinality(unordered)
              /\ \A pt \in patterns :
                    /\ pt.price1 = DictGet(bid_map, pt.bidder1)
                    /\ pt.price2 = DictGet(bid_map, pt.bidder2)
                    /\ pt.price1 <= pt.price2
              /\ bidders = CoverBids => PatternPairs = {<<"B2", "B3">>}

\* two bidders with the same bid, above the gate, were paired, next to a
\* bid below the gate that was not
C17_Witness ==
    /\ PriceStageReturned
    /\ \E pt \in price_analysis.cover_bidding_analysis.suspicious_patterns :
          pt.price1 = pt.price2
    /\ Len(BidMap) = 3

\* the documents the similarity stage compares, each with its bidder
OwnedDocs ==
    LET bt == BidderTexts(bidders, extracted_text)
    IN  IF extracted_text = <<>> THEN <<>>
        ELSE Concat([i \in DOMAIN bt |->
            [k \in DOMAIN bt[i][2] |->
                [bidder |-> bt[i][1], doc |-> bt[i][2][k][1], text |-> bt[i][2][k][2]]]])

\* the pairs of documents of two different bidders, in the order compared,
\* each with the similarity the embedding model gave it
CrossPairs ==
    LET docs == OwnedDocs
    IN  {[i |-> ij[1], j |-> ij[2],
          bidder1 |-> docs[ij[1]].bidder, bidder2 |-> docs[ij[2]].bidder,
          similarity |-> CosSim(sim_matrix, docs[ij[1]].text, docs[ij[2]].text)]
         : ij \in {ij \in (DOMAIN docs) \X (DOMAIN docs) :
                     ij[1] < ij[2] /\ docs[ij[1]].bidder # docs[ij[2]].bidder}}

\* the number of pairs of X of bidder b1 (first) and bidder b2 with similarity s
PairCount(X, b1, b2, s) ==
    Cardinality({x \in X : x.bidder1 = b1 /\ x.bidder2 = b2 /\ x.similarity = s})

SignalCount(b1, b2, s) ==
    Cardinality({k \in DOMAIN risk_signals :
        /\ risk_signals[k].signal_type = "document_similarity"
        /\ risk_signals[k].affected_bidders = <<b1, b2>>
        /\ risk_signals[k].score = s})

RecordCount(b1, b2, s) ==
    Cardinality({k \in DOMAIN similarity_analysis.cross_bidder_similarities :
        LET r == similarity_analysis.cross_bidder_similarities[k]
        IN  r.bidder1 = b1 /\ r.bidder2 = b2 /\ r.similarity = s})

BidderIds == {bidders[i].bidder_id : i \in DOMAIN bidders}

Similarities == {Percent(v) : v \in SimValues} \cup {ScoreUnit}

\* C18: the similarity stage emits exactly one document_similarity
\* signal for every cross-bidder document pair with similarity >= 0.70, the
\* pairs in [0.70, 0.85] included, with severity medium.
C18_SignalPerSimilarPair ==
    SimilarityStageReturned =>
        LET X == CrossPairs
        IN  \A b1 \in BidderIds, b2 \in BidderIds, s \in Similarities :
              /\ SignalCount(b1, b2, s) =
                    (IF s >= Percent(70) THEN PairCount(X, b1, b2, s) ELSE 0)
              /\ (Percent(70) <= s /\ s <= Percent(85)) =>
                    \A k \in DOMAIN risk_signals :
                        (/\ risk_signals[k].signal_type = "document_similarity"
                         /\ risk_signals[k].score = s)
                        => risk_signals[k].severity = "medium"

NoRepeat(s) == \A i \in DOMAIN s, j \in DOMAIN s : i # j => s[i] # s[j]

\* C19: no document_similarity signal and no relationship_network signal
\* lists a bidder twice, and the relationship graph has no edge from a
\* bidder to itself: two documents of one bidder yield neither.
C19_NoSelfPairs ==
    /\ \A k \in DOMAIN risk_signals :
          risk_signals[k].signal_type \in {"document_similarity", "relationship_network"}
             => NoRepeat(risk_signals[k].affected_bidders)
    /\ \A i \in DOMAIN graph.edges : graph.edges[i].u # graph.edges[i].v
    /\ relationship_graph # None =>
          \A i \in DOMAIN relationship_graph.graph_data.edges :
              relationship_graph.graph_data.edges[i].u
                  # relationship_graph.graph_data.edges[i].v

\* a returned run in which two documents of one bidder were more than 0.85
\* similar, and signals of both types were emitted
C19_Witness ==
    /\ Returned
    /\ relationship_graph # None
    /\ \E i \in DOMAIN OwnedDocs, j \in DOMAIN OwnedDocs :
          /\ i < j /\ OwnedDocs[i].bidder = OwnedDocs[j].bidder
          /\ sim_matrix # <<>>
          /\ CosSim(sim_matrix, OwnedDocs[i].text, OwnedDocs[j].text) > Percent(85)
    /\ SignalsOfType("document_similarity") # <<>>
    /\ graph.edges # <<>>

\* the calls made on the unordered pair {a, b}, in call order
CallsOn(a, b) ==
    SelectSeq(calls, LAMBDA c : {c.bidder1, c.bidder2} = {a, b})

\* C20: after any sequence of add_relationship calls, for every unordered
\* pair {a, b} called in either argument order the graph has a single edge,
\* whose weight is the maximum of the weights passed and whose relationship
\* list is the types in call order; a pair never called has no edge.
C20_EdgeAccumulates ==
    \A a \in CallBidders, b \in CallBidders :
        a # b =>
            LET on == CallsOn(a, b)
                es == {i \in DOMAIN graph.edges : IsEdge(graph.edges[i], a, b)}
            IN  IF on = <<>> THEN es = {}
                ELSE /\ Cardinality(es) = 1
                     /\ \A i \in es :
                           /\ graph.edges[i].weight = SeqMax([k \in DOMAIN on |-> on[k].weight])
                           /\ graph.edges[i].relationships = [k \in DOMAIN on |-> on[k].type]

\* one pair called three times, in both argument orders, the heavier weight
\* first and the same call repeated
C20_Witness ==
    /\ Len(calls) = 3
    /\ {calls[1].bidder1, calls[1].bidder2} = {calls[2].bidder1, calls[2].bidder2}
    /\ calls[1].bidder1 = calls[2].bidder2
    /\ calls[1].weight > calls[2].weight
    /\ calls[3] = calls[2]
    /\ Len(graph.edges) = 1

\* the evidence key a call of the type passes
EvidenceKey(relationship_type) ==
    CallEvidence(relationship_type, Percent(80))[1][1]

\* C21: after two relationships of different types were merged on the same
\* pair, the edge holds evidence of both types: for every type in the edge's
\* relationship list the evidence dict has the key calls of that type pass.
C21_EvidenceOfBothTypes ==
    \A i \in DOMAIN graph.edges :
        \A t \in Range(graph.edges[i].relationships) :
            DictHas(graph.edges[i].evidence, EvidenceKey(t))

\* two bidder entries of ids a and b declare the same non-empty value of field
SharesValue(field, a, b) ==
    \E i \in DOMAIN bidders, j \in DOMAIN bidders :
        /\ bidders[i].bidder_id = a /\ bidders[j].bidder_id = b
        /\ bidders[i].contact_info # None /\ bidders[j].contact_info # None
        /\ bidders[i].contact_info[field] # ""
        /\ bidders[i].contact_info[field] = bidders[j].contact_info[field]

RelationshipStageReturned == relationship_graph # None

\* the relationship stage has just returned
RelationshipStageJustReturned ==
    pc = "generate_report" /\ RelationshipStageReturned

\* C22: when the relationship stage returns, for each contact field
\* f of email, phone and address and every two bidders, a shared_<f>
\* relationship of weight 0.8 was added between them exactly once if they
\* declare the same non-empty value of f, and none if their values differ
\* or are missing; the edge of the pair lists the type exactly in that case,
\* and bidders without contact information get no shared_<f> relationship.
C22_SharedContactRelationships ==
    RelationshipStageJustReturned =>
        IF \A i \in DOMAIN bidders : bidders[i].contact_info = None
        THEN /\ \A k \in DOMAIN calls : calls[k].type = "document_similarity"
             /\ \A i \in DOMAIN graph.edges :
                   Range(graph.edges[i].relationships) \subseteq {"document_similarity"}
        ELSE \A k \in DOMAIN ContactFields :
                \A a \in BidderIds, b \in BidderIds :
                    a # b =>
                        LET type == SharedType(ContactFields[k])
                            on == SelectSeq(CallsOn(a, b), LAMBDA c : c.type = type)
                            typed == {i \in DOMAIN graph.edges :
                                         /\ IsEdge(graph.edges[i], a, b)
                                         /\ type \in Range(graph.edges[i].relationships)}
                        IN  IF SharesValue(ContactFields[k], a, b)
                            THEN /\ Len(on) = 1
                                 /\ on[1].weight = Percent(80)
                                 /\ Cardinality(typed) = 1
                                 /\ \A i \in typed : graph.edges[i].weight >= Percent(80)
                            ELSE on = <<>> /\ typed = {}

\* three bidders declared one email, so that the group gives three pairs
C22_Witness ==
    /\ RelationshipStageReturned
    /\ Len(bidders) = 3
    /\ \A a \in BidderIds, b \in BidderIds : a # b => SharesValue("email", a, b)
    /\ Cardinality(BidderIds) = 3
    /\ Len(graph.edges) = 3

\* the seed request "shared email": three bidders declaring one email and
\* submitting no document
SharedEmailSeed ==
    [i \in 1..3 |->
        BidderInfo(BidderName[i], PositionAmount[i], <<>>, ContactInfo("x@x.com", "", ""))]

\* C23: for three bidders sharing one email and no document similarity the
\* relationship stage builds three shared_email edges, a triangle, and
\* emits exactly one relationship_network signal, of severity medium and
\* score 1.0.
C23_SharedEmailOneSignal ==
    (bidders = SharedEmailSeed /\ RelationshipStageReturned) =>
        /\ Len(graph.edges) = 3
        /\ \A i \in DOMAIN graph.edges : graph.edges[i].relationships = <<"shared_email">>
        /\ \A a \in BidderIds, b \in BidderIds :
              a # b => \E i \in DOMAIN graph.edges : IsEdge(graph.edges[i], a, b)
        /\ Len(SignalsOfType("relationship_network")) = 1
        /\ \A k \in DOMAIN risk_signals :
              risk_signals[k].signal_type = "relationship_network" =>
                  /\ risk_signals[k].severity = "medium"
                  /\ risk_signals[k].score = ScoreUnit

\* C24: each run works on a relationship graph of its own: of two runs whose
\* relationship stages interleave, each returns a result the stage gives
\* for its request when run alone.
C24_RunsIsolated ==
    \A r \in Runs :
        runs[r].pc = "done" =>
            runs[r].relationship_graph \in
                analyze_bidder_network(RunBidderIds(r), EmptySimilarity,
                                       ContactData(runs[r].bidders))

\* C25: the relationship stage consumes only the high_risk_pairs of the
\* similarity result: every document_similarity relationship it adds has a
\* similarity above 0.85 and joins the bidders of a high-risk pair, so that
\* no edge is created for a pair with similarity in [0.70, 0.85].
C25_EdgesOnlyForHighRisk ==
    (RelationshipStageReturned /\ similarity_analysis # None) =>
        /\ \A k \in DOMAIN calls :
              calls[k].type = "document_similarity" => calls[k].weight > Percent(85)
        /\ \A i \in DOMAIN graph.edges :
              "document_similarity" \in Range(graph.edges[i].relationships) =>
                  \E k \in DOMAIN similarity_analysis.high_risk_pairs :
                      IsEdge(graph.edges[i],
                             similarity_analysis.high_risk_pairs[k].bidder1,
                             similarity_analysis.high_risk_pairs[k].bidder2)

\* the strings of bidder ids and document names, in Python's string order
StringOrder ==
    <<"A", "A:B", "B", "B1", "B2", "B3", "B4", "B5", "C", "a.pdf", "b.pdf", "c.txt">>

StringRank(s) == CHOOSE i \in DOMAIN StringOrder : StringOrder[i] = s

\* p before q, or equal to it, in the lexicographic order of two lists of
\* strings
RECURSIVE LexLeq(_, _)
LexLeq(p, q) ==
    IF p = <<>> THEN TRUE
    ELSE IF q = <<>> THEN FALSE
    ELSE IF Head(p) = Head(q) THEN LexLeq(Tail(p), Tail(q))
    ELSE StringRank(Head(p)) < StringRank(Head(q))

\* the pair of pseudo-IDs of r before that of s, or equal to it
PairLexLeq(r, s) ==
    IF r.document1 = s.document1 THEN LexLeq(r.document2, s.document2)
    ELSE LexLeq(r.document1, s.document1)

\* C26: the similarity pairs of the result are ordered by descending
\* similarity, and pairs of equal similarity by the lexicographic order of
\* their pseudo-IDs, whatever the order in which bidders and documents were
\* supplied.
C26_PairsOrdered ==
    similarity_analysis # None =>
        LET cross == similarity_analysis.cross_bidder_similarities
        IN  \A k \in DOMAIN cross :
                k < Len(cross) =>
                    \/ cross[k].similarity > cross[k + 1].similarity
                    \/ /\ cross[k].similarity = cross[k + 1].similarity
                       /\ PairLexLeq(cross[k], cross[k + 1])

\* the style pair r before s, or equal to it, by its two bidder ids
StylePairLeq(r, s) ==
    IF r.doc1 = s.doc1 THEN StringRank(r.doc2) <= StringRank(s.doc2)
    ELSE StringRank(r.doc1) < StringRank(s.doc1)

\* C27: the stylometry pairs (similarity above 0.80) are ordered by
\* descending similarity and, at equal similarity, by the lexicographic
\* order of their bidder-id pair, and the stylometry signals follow the
\* same order.
C27_StylePairsOrdered ==
    stylometry_analysis # None =>
        LET matches == stylometry_analysis.suspicious_style_matches
            signals == SignalsOfType("stylometry")
        IN  /\ \A k \in DOMAIN matches :
                  k < Len(matches) =>
                      \/ matches[k].similarity > matches[k + 1].similarity
                      \/ /\ matches[k].similarity = matches[k + 1].similarity
                         /\ StylePairLeq(matches[k], matches[k + 1])
            /\ \A k \in DOMAIN signals :
                  k < Len(signals) => signals[k].score >= signals[k + 1].score

\* C28: the node set of the relationship graph the stage returns is exactly
\* the set of bidder ids of the request, also when a bidder id contains the
\* character ':'.
C28_NodesAreBidderIds ==
    RelationshipStageReturned =>
        /\ Range(relationship_graph.graph_data.nodes) = BidderIds
        /\ relationship_graph.num_bidders = Cardinality(BidderIds)

\* C29: the state a run returns is terminal: analysis_complete is true, or
\* current_step is the '<stage>_failed' value of a stage that failed.
C29_ReturnedStateTerminal ==
    Returned =>
        \/ analysis_complete
        \/ \E k \in DOMAIN raised : current_step = FailedStep(raised[k])

\* C30: a step in which a stage's body raises changes error alone, and
\* current_step when the stage is the extract stage: the request,
\* risk_signals, overall_risk_score, analysis_complete and the five result
\* slots keep their values.
C30_FailureFrame ==
    [][raised' # raised =>
          /\ UNCHANGED <<bidders, uploaded_documents, risk_signals,
                         overall_risk_score, analysis_complete>>
          /\ UNCHANGED <<extracted_text, price_analysis, similarity_analysis,
                         stylometry_analysis, relationship_graph>>
          /\ current_step' # current_step => pc = "extract_documents"
          /\ error' # NoError]_vars

\* the similarity stage has just raised, after the price stage wrote its
\* slot and a signal
C30_Witness ==
    /\ raised = <<"analyze_similarity">>
    /\ pc = "analyze_stylometry"
    /\ price_analysis # None
    /\ risk_signals # <<>>
    /\ current_step = "price_analysis"
    /\ error = ErrorOf("analyze_similarity")

====
